---- MODULE Spec2Model ----
(***************************************************************************)
(* ObsidianFrontmatterEditor: one run of PropertyProcessor over a vault,   *)
(* driven by the rules ConfigManager yields from a YAML configuration.     *)
(*                                                                         *)
(* The note library (src.library.note / src.library.metadata) is the       *)
(* storage collaborator: Notes.filter, Notes.update_content, Notes.write   *)
(* and the metadata accessors has/get/add/remove.                          *)
(***************************************************************************)
EXTENDS Integers, Sequences, FiniteSets, TLC

(* ------------------------------ bounds --------------------------------- *)
NumDocs == 2       \* documents in the vault
MaxTags == 2       \* tag entries in a configuration
MaxOps  == 2       \* property entries in one tag entry

Docs      == 1..NumDocs
TagNames  == {"a", "b"}
PropNames == {"p", "q"}

(* ------------------------- python values ------------------------------- *)
PyNone == "<None>"       \* None, also what dict.get returns for a missing key
Absent == "<absent>"     \* the key is not in the front-matter mapping

\* Python truthiness of an optional string
Truthy(x) == x \notin {PyNone, ""}

SeqsUpTo(S, n) == UNION {[1..k -> S] : k \in 0..n}

\* {} as a front-matter mapping
EmptyFm == [tags |-> {}, props |-> [k \in PropNames |-> Absent]]

(* -------------------- configuration file contents ---------------------- *)
PropEntry(a, o, n, d) ==
    [isdict |-> TRUE, action |-> a, old |-> o, new |-> n, default |-> d]

\* a property entry that is not a mapping (a bare scalar in the YAML list)
NotADict == [isdict |-> FALSE, action |-> PyNone, old |-> PyNone,
             new |-> PyNone, default |-> PyNone]

PropList(items) == [islist |-> TRUE, items |-> items]

\* "properties" missing or not a YAML sequence
NotAList == [islist |-> FALSE, items |-> <<>>]

TagEntry(t, ps) == [tag |-> t, properties |-> ps]

TagsList(es) == [kind |-> "list", items |-> es]
TagsAbsent   == [kind |-> "absent", items |-> <<>>]
TagsNull     == [kind |-> "null", items |-> <<>>]

\* property entries of the operation scenarios
OpSet ==
    {o \in [isdict : {TRUE},
            action : {PyNone, "add", "rename", "remove", "move"},
            old : {PyNone, "p"},
            new : {PyNone, "p", "q"},
            default : {PyNone, "x"}] :
        /\ o.default # PyNone => o.action = "add"
        /\ o.action = PyNone => (o.old = PyNone /\ o.new = PyNone)
        /\ o.action = "move" => (o.old = "p" /\ o.new = "q")}

\* property lists of the rule scenarios
RuleProps ==
    {NotAList,
     PropList(<<NotADict>>),
     PropList(<<>>),
     PropList(<<PropEntry("rename", "p", "q", PyNone)>>),
     PropList(<<PropEntry("remove", "q", PyNone, PyNone)>>)}

RuleEntries ==
    {TagEntry(PyNone, PropList(<<>>))}
        \cup {TagEntry(t, ps) : t \in TagNames, ps \in RuleProps}

\* vaults: front-matter of every document on disk
RuleVaults ==
    [Docs -> {[tags |-> ts, props |-> [k \in PropNames |->
                  IF k = "p" THEN "x" ELSE Absent]] : ts \in SUBSET TagNames}]

OpVaults ==
    {[d \in Docs |-> IF d = 1 THEN [tags |-> {"a"}, props |-> ps] ELSE EmptyFm] :
        ps \in {[p |-> a, q |-> b] : a \in {Absent, "x"}, b \in {Absent, "y"}}}

OkFile(y) == [status |-> "ok", yaml |-> [tags |-> y]]

\* several rules over documents with varying tags
RuleScenarios ==
    {[file |-> OkFile(y), vault |-> v] :
        y \in {TagsAbsent, TagsNull}
                \cup {TagsList(es) : es \in SeqsUpTo(RuleEntries, MaxTags)},
        v \in RuleVaults}

\* one rule with an arbitrary operation list over one matching document
OpScenarios ==
    {[file |-> OkFile(TagsList(<<TagEntry("a", PropList(ops))>>)), vault |-> v] :
        ops \in SeqsUpTo(OpSet, MaxOps), v \in OpVaults}

\* the configuration file cannot be loaded
FailScenarios ==
    {[file |-> [status |-> s, yaml |-> [tags |-> TagsAbsent]],
      vault |-> [d \in Docs |-> EmptyFm]] :
        s \in {"missing", "unparsable", "ioerror"}}

Scenarios == RuleScenarios \cup OpScenarios \cup FailScenarios

(* ------------------------------ state ---------------------------------- *)
VARIABLES
    file,         \* the configuration file at yaml_path
    yaml,         \* ConfigManager._yaml
    pc,           \* position of the run
    tagIdx,       \* raw tag entries consumed by get_next_tag
    tag,          \* tag of the rule being processed
    properties,   \* validated operation list of the rule being processed
    notes,        \* Notes.notes: the documents the collection holds, in order
    noteIdx,      \* documents of the current rule already processed
    opIdx,        \* operations already applied to the current document
    metadata,     \* live in-memory front-matter of every document
    content,      \* in-memory serialised content of every document
    stored,       \* content of every document on disk
    tracker,      \* PropertyProcessor._change_tracker
    all_changes,  \* PropertyProcessor._all_changes (the session)
    rendered,     \* trackers whose summary has been printed, in order
    diags,        \* console diagnostics of ConfigManager, in order
    backup,       \* the backup archive
    yielded,      \* history: pairs yielded by get_next_tag
    ruleLog,      \* history: per processed rule, its tag and selected documents
    events,       \* history: confirmation, backup and persistence calls, in order
    initial       \* history: content of every document on disk before the run

vars == <<file, yaml, pc, tagIdx, tag, properties, notes, noteIdx, opIdx, metadata,
          content, stored, tracker, all_changes, rendered, diags, backup,
          yielded, ruleLog, events, initial>>

\* PropertyChangeTracker(filename, old_frontmatter, new_frontmatter)
PropertyChangeTracker(fn, old, new) ==
    [filename |-> fn, old_frontmatter |-> old, new_frontmatter |-> new,
     changes |-> <<>>, logs |-> <<>>]

NoBackup == [exists |-> FALSE, snapshot |-> [d \in Docs |-> EmptyFm]]

\* the documents of the vault in the collection's natural order
AllNotes == [i \in 1..NumDocs |-> i]

Init ==
    \E sc \in Scenarios :
        /\ file = sc.file
        /\ stored = sc.vault
        /\ content = sc.vault
        /\ metadata = sc.vault
        /\ yaml = [tags |-> TagsAbsent]
        /\ pc = "start"
        /\ tagIdx = 0
        /\ tag = PyNone
        /\ properties = <<>>
        /\ notes = AllNotes
        /\ noteIdx = 0
        /\ opIdx = 0
        /\ tracker = PropertyChangeTracker(0, EmptyFm, EmptyFm)
        /\ all_changes = <<>>
        /\ rendered = <<>>
        /\ diags = <<>>
        /\ backup = NoBackup
        /\ yielded = <<>>
        /\ ruleLog = <<>>
        /\ events = <<>>
        /\ initial = sc.vault

(* ------------------------- ConfigManager ------------------------------- *)
\* ConfigManager._print_error / _print_warning
PrintError(msg) == "[ERROR] - " \o msg
PrintWarning(msg) == "[WARNING] - " \o msg

\* faulty variant of ValidateTag: the entries of the list are not checked
ValidateTagAnyList(t) ==
    IF ~Truthy(t.tag)
    THEN [ok |-> FALSE, diags |-> <<PrintError("No tag found.")>>]
    ELSE IF ~t.properties.islist
    THEN [ok |-> FALSE, diags |-> <<PrintError("Properties must be a list.")>>]
    ELSE [ok |-> TRUE, diags |-> <<>>]

\* ConfigManager._validate_tag: the verdict and the diagnostics it prints
ValidateTag(t) ==
    IF ~Truthy(t.tag)
    THEN [ok |-> FALSE, diags |-> <<PrintError("No tag found.")>>]
    ELSE IF ~t.properties.islist
    THEN [ok |-> FALSE, diags |-> <<PrintError("Properties must be a list.")>>]
    ELSE IF \E i \in DOMAIN t.properties.items : ~t.properties.items[i].isdict
    THEN [ok |-> FALSE,
          diags |-> <<PrintError("Properties must be a list of dictionaries.")>>]
    ELSE [ok |-> TRUE, diags |-> <<>>]

\* faulty variant of ValidateProperty: old and new are not compared
ValidatePropertyKeepsSame(prop) ==
    IF ~Truthy(prop.action)
    THEN PrintError("No action defined.")
    ELSE IF prop.action \in {"rename", "remove"} /\ ~Truthy(prop.old)
    THEN PrintError("Old property not found.")
    ELSE IF prop.action \in {"rename", "add"} /\ ~Truthy(prop.new)
    THEN PrintError("New property not found.")
    ELSE ""

\* the body of the loop of ConfigManager._validate_properties for one entry:
\* the diagnostic that drops it, or "" when it is kept
ValidateProperty(prop) ==
    IF ~Truthy(prop.action)
    THEN PrintError("No action defined.")
    ELSE IF prop.action \in {"rename", "remove"} /\ ~Truthy(prop.old)
    THEN PrintError("Old property not found.")
    ELSE IF prop.action \in {"rename", "add"} /\ ~Truthy(prop.new)
    THEN PrintError("New property not found.")
    ELSE IF prop.new = prop.old
    THEN PrintWarning("Old and new properties are the same.")
    ELSE ""

RECURSIVE ValidateProperties(_)
\* ConfigManager._validate_properties over the list of entries
ValidateProperties(items) ==
    IF items = <<>>
    THEN [properties |-> <<>>, diags |-> <<>>]
    ELSE LET d == ValidateProperty(Head(items))
             rest == ValidateProperties(Tail(items))
         IN  IF d = ""
             THEN [properties |-> <<Head(items)>> \o rest.properties,
                   diags |-> rest.diags]
             ELSE [properties |-> rest.properties, diags |-> <<d>> \o rest.diags]

\* ConfigManager._load_yaml / PropertyProcessor.__init__
LoadOk ==
    /\ pc = "start"
    /\ file.status = "ok"
    /\ yaml' = file.yaml
    /\ pc' = "get_next_tag"
    /\ UNCHANGED <<file, tagIdx, tag, properties, notes, noteIdx, opIdx,
                   metadata, content, stored, tracker, all_changes, rendered,
                   diags, backup, yielded, ruleLog,
                   events, initial>>

\* faulty variant of LoadFail: the error is printed and the exit is missing
LoadFailContinues ==
    /\ pc = "start"
    /\ file.status # "ok"
    /\ diags' = Append(diags, PrintError("load: " \o file.status))
    /\ pc' = "get_next_tag"
    /\ UNCHANGED <<file, yaml, tagIdx, tag, properties, notes, noteIdx, opIdx,
                   metadata, content, stored, tracker, all_changes, rendered,
                   backup, yielded, ruleLog,
                   events, initial>>

\* ConfigManager._load_yaml: the except branches, exit(-1)
LoadFail ==
    /\ pc = "start"
    /\ file.status # "ok"
    /\ diags' = Append(diags, PrintError("load: " \o file.status))
    /\ pc' = "fatal"
    /\ UNCHANGED <<file, yaml, tagIdx, tag, properties, notes, noteIdx, opIdx,
                   metadata, content, stored, tracker, all_changes, rendered,
                   backup, yielded, ruleLog,
                   events, initial>>

\* get_next_tag: the yield of (None, None) when the configuration has no tags;
\* run skips the pair (not tag) and resumes the generator
NoTagsFound ==
    /\ pc = "get_next_tag"
    /\ yaml.tags.kind # "list"
    /\ diags' = Append(diags, PrintError("No tags found."))
    /\ yielded' = Append(yielded, [tag |-> PyNone, none |-> TRUE,
                                   properties |-> <<>>])
    /\ pc' = "tag_loop"
    /\ UNCHANGED <<file, yaml, tagIdx, tag, properties, notes, noteIdx, opIdx,
                   metadata, content, stored, tracker, all_changes, rendered,
                   backup, ruleLog,
                   events, initial>>

\* the generator is at the head of its loop over the tag entries
AtTagLoop == pc = "tag_loop" \/ (pc = "get_next_tag" /\ yaml.tags.kind = "list")

\* get_next_tag: self._yaml.get("tags", []) is None and cannot be iterated;
\* the TypeError ends the run
TagLoopNull ==
    /\ pc = "tag_loop"
    /\ yaml.tags.kind = "null"
    /\ pc' = "crashed"
    /\ UNCHANGED <<file, yaml, tagIdx, tag, properties, notes, noteIdx, opIdx,
                   metadata, content, stored, tracker, all_changes, rendered,
                   diags, backup, yielded, ruleLog,
                   events, initial>>

\* get_next_tag is exhausted; run calls _finish
TagLoopEnd ==
    /\ AtTagLoop
    /\ yaml.tags.kind # "null"
    /\ tagIdx = Len(yaml.tags.items)
    /\ pc' = "summary"
    /\ UNCHANGED <<file, yaml, tagIdx, tag, properties, notes, noteIdx, opIdx,
                   metadata, content, stored, tracker, all_changes, rendered,
                   diags, backup, yielded, ruleLog,
                   events, initial>>

\* get_next_tag: an entry _validate_tag rejects is not yielded
InvalidTag ==
    /\ AtTagLoop
    /\ tagIdx < Len(yaml.tags.items)
    /\ LET v == ValidateTag(yaml.tags.items[tagIdx + 1])
       IN  /\ ~v.ok
           /\ diags' = diags \o v.diags
    /\ tagIdx' = tagIdx + 1
    /\ pc' = "tag_loop"
    /\ UNCHANGED <<file, yaml, tag, properties, notes, noteIdx, opIdx,
                   metadata, content, stored, tracker, all_changes, rendered,
                   backup, yielded, ruleLog,
                   events, initial>>

(* ---------------------- storage collaborator --------------------------- *)
\* NoteMetadata.has(k)
MetaHas(fm, k) == fm.props[k] # Absent

\* NoteMetadata.get(k)
MetaGet(fm, k) == fm.props[k]

\* NoteMetadata.add(k, value, MetadataType.FRONTMATTER)
MetaAdd(fm, k, v) == [fm EXCEPT !.props[k] = v]

\* NoteMetadata.remove(k)
MetaRemove(fm, k) == [fm EXCEPT !.props[k] = Absent]

\* NoteMetadata.has("tags", tag): the tag is one of the values of the tag field
HasTag(fm, t) == t \in fm.tags

\* Notes.filter(has_meta=[("tags", tag, None)]): the documents of the list
\* whose tag field contains the tag, in the list's order
Filter(ns, md, t) == SelectSeq(ns, LAMBDA d : HasTag(md[d], t))

(* ------------------------ PropertyProcessor ---------------------------- *)
\* PropertyProcessor._get_filtered_notes: the collection it returns
GetFilteredNotes(ns, md, t) == Filter(ns, md, t)

\* the documents of the whole vault whose tag field contains the tag
Matching(md, t) == {d \in Docs : HasTag(md[d], t)}

\* run, a yielded pair with an empty operation list: continue
SkipRule ==
    /\ AtTagLoop
    /\ tagIdx < Len(yaml.tags.items)
    /\ LET e == yaml.tags.items[tagIdx + 1]
           v == ValidateProperties(e.properties.items)
       IN  /\ ValidateTag(e).ok
           /\ ~Truthy(e.tag) \/ v.properties = <<>>
           /\ diags' = diags \o v.diags
           /\ yielded' = Append(yielded, [tag |-> e.tag, none |-> FALSE,
                                          properties |-> v.properties])
           /\ tag' = e.tag
           /\ properties' = v.properties
    /\ tagIdx' = tagIdx + 1
    /\ pc' = "tag_loop"
    /\ UNCHANGED <<file, yaml, notes, noteIdx, opIdx, metadata, content,
                   stored, tracker, all_changes, rendered, backup, ruleLog,
                   events, initial>>

\* run, a yielded pair with operations: filter the collection by the tag
SelectNotes ==
    /\ AtTagLoop
    /\ tagIdx < Len(yaml.tags.items)
    /\ LET e == yaml.tags.items[tagIdx + 1]
           v == ValidateProperties(e.properties.items)
           sel == GetFilteredNotes(notes, metadata, e.tag)
       IN  /\ ValidateTag(e).ok
           /\ Truthy(e.tag) /\ v.properties # <<>>
           /\ diags' = diags \o v.diags
           /\ yielded' = Append(yielded, [tag |-> e.tag, none |-> FALSE,
                                          properties |-> v.properties])
           /\ tag' = e.tag
           /\ properties' = v.properties
           /\ notes' = sel
           /\ ruleLog' = Append(ruleLog,
                                [entry |-> tagIdx + 1, tag |-> e.tag,
                                 selected |-> sel,
                                 matching |-> Matching(metadata, e.tag)])
           /\ pc' = IF sel = <<>> THEN "tag_loop" ELSE "note_loop"
    /\ tagIdx' = tagIdx + 1
    /\ noteIdx' = 0
    /\ UNCHANGED <<file, yaml, opIdx, metadata, content, stored, tracker,
                   all_changes, rendered, backup,
                   events, initial>>

\* faulty variant of BeginNote: the old snapshot is taken from the file on
\* disk, not from the live metadata
BeginNoteFromDisk ==
    /\ pc = "note_loop"
    /\ noteIdx < Len(notes)
    /\ LET d == notes[noteIdx + 1]
       IN  tracker' = [PropertyChangeTracker(d, EmptyFm, EmptyFm)
                           EXCEPT !.old_frontmatter = stored[d]]
    /\ opIdx' = 0
    /\ pc' = "ops"
    /\ UNCHANGED <<file, yaml, tagIdx, tag, properties, notes, noteIdx,
                   metadata, content, stored, all_changes, rendered, diags,
                   backup, yielded, ruleLog,
                   events, initial>>

\* run, head of the loop over notes.notes: tracker and old snapshot
BeginNote ==
    /\ pc = "note_loop"
    /\ noteIdx < Len(notes)
    /\ LET d == notes[noteIdx + 1]
       IN  tracker' = [PropertyChangeTracker(d, EmptyFm, EmptyFm)
                           EXCEPT !.old_frontmatter = metadata[d]]
    /\ opIdx' = 0
    /\ pc' = "ops"
    /\ UNCHANGED <<file, yaml, tagIdx, tag, properties, notes, noteIdx,
                   metadata, content, stored, all_changes, rendered, diags,
                   backup, yielded, ruleLog,
                   events, initial>>

\* PropertyChangeTracker.add_change
AddChange(tr, action, old_property, new_property, old_value, new_value) ==
    [tr EXCEPT !.changes = Append(@, [action |-> action,
                                      old_property |-> old_property,
                                      new_property |-> new_property,
                                      old_value |-> old_value,
                                      new_value |-> new_value])]

\* PropertyChangeTracker.add_log
AddLog(tr, message) == [tr EXCEPT !.logs = Append(@, message)]

LogNotFound(prop) == "Property '" \o prop \o "' not found."
LogExists(prop) == "Property '" \o prop \o "' already exists."

\* faulty variant of RenameProperty: the old property is not removed
RenameKeepsOld(st, old_property, new_property) ==
    IF MetaHas(st.fm, old_property)
    THEN LET value == MetaGet(st.fm, old_property)
         IN  [fm |-> MetaAdd(st.fm, new_property, value),
              tr |-> AddChange(st.tr, "rename", old_property, new_property,
                               value, value)]
    ELSE [fm |-> st.fm, tr |-> AddLog(st.tr, LogNotFound(old_property))]

\* PropertyProcessor._rename_property on the current note and tracker
RenameProperty(st, old_property, new_property) ==
    IF MetaHas(st.fm, old_property)
    THEN LET value == MetaGet(st.fm, old_property)
         IN  [fm |-> MetaRemove(MetaAdd(st.fm, new_property, value),
                                old_property),
              tr |-> AddChange(st.tr, "rename", old_property, new_property,
                               value, value)]
    ELSE [fm |-> st.fm, tr |-> AddLog(st.tr, LogNotFound(old_property))]

\* faulty variant of AddProperty: the presence check is missing
AddAlways(st, prop, value) ==
    [fm |-> MetaAdd(st.fm, prop, value),
     tr |-> AddChange(st.tr, "add", PyNone, prop, PyNone, value)]

\* PropertyProcessor._add_property on the current note and tracker
AddProperty(st, prop, value) ==
    IF ~MetaHas(st.fm, prop)
    THEN [fm |-> MetaAdd(st.fm, prop, value),
          tr |-> AddChange(st.tr, "add", PyNone, prop, PyNone, value)]
    ELSE [fm |-> st.fm, tr |-> AddLog(st.tr, LogExists(prop))]

\* faulty variant of RemoveProperty: the removal is recorded and not done
RemoveRecordsOnly(st, prop) ==
    IF MetaHas(st.fm, prop)
    THEN [fm |-> st.fm,
          tr |-> AddChange(st.tr, "remove", prop, PyNone, PyNone, PyNone)]
    ELSE [fm |-> st.fm, tr |-> AddLog(st.tr, LogNotFound(prop))]

\* faulty variant of RemoveProperty: a missing property is passed over without a log
RemoveSilently(st, prop) ==
    IF MetaHas(st.fm, prop)
    THEN [fm |-> MetaRemove(st.fm, prop),
          tr |-> AddChange(st.tr, "remove", prop, PyNone, PyNone, PyNone)]
    ELSE st

\* PropertyProcessor._remove_property on the current note and tracker
RemoveProperty(st, prop) ==
    IF MetaHas(st.fm, prop)
    THEN [fm |-> MetaRemove(st.fm, prop),
          tr |-> AddChange(st.tr, "remove", prop, PyNone, PyNone, PyNone)]
    ELSE [fm |-> st.fm, tr |-> AddLog(st.tr, LogNotFound(prop))]

\* the body of the loop of _process_properties for one operation
ProcessProperty(st, prop) ==
    IF prop.action = "add" THEN AddProperty(st, prop.new, prop.default)
    ELSE IF prop.action = "rename" THEN RenameProperty(st, prop.old, prop.new)
    ELSE IF prop.action = "remove" THEN RemoveProperty(st, prop.old)
    ELSE st

\* the document being processed
CurNote == notes[noteIdx + 1]

\* faulty variant of ApplyOp: every operation starts from the document as it
\* was before the rule's first operation
ApplyOpOnSnapshot ==
    /\ pc = "ops"
    /\ opIdx < Len(properties)
    /\ LET r == ProcessProperty([fm |-> tracker.old_frontmatter,
                                 tr |-> tracker],
                                properties[opIdx + 1])
       IN  /\ metadata' = [metadata EXCEPT ![CurNote] = r.fm]
           /\ tracker' = r.tr
    /\ opIdx' = opIdx + 1
    /\ UNCHANGED <<file, yaml, pc, tagIdx, tag, properties, notes, noteIdx,
                   content, stored, all_changes, rendered, diags, backup,
                   yielded, ruleLog,
                   events, initial>>

\* _process_properties: one operation applied to the current note
ApplyOp ==
    /\ pc = "ops"
    /\ opIdx < Len(properties)
    /\ LET r == ProcessProperty([fm |-> metadata[CurNote], tr |-> tracker],
                                properties[opIdx + 1])
       IN  /\ metadata' = [metadata EXCEPT ![CurNote] = r.fm]
           /\ tracker' = r.tr
    /\ opIdx' = opIdx + 1
    /\ UNCHANGED <<file, yaml, pc, tagIdx, tag, properties, notes, noteIdx,
                   content, stored, all_changes, rendered, diags, backup,
                   yielded, ruleLog,
                   events, initial>>

\* faulty variant of EndNote: new_frontmatter is the live mapping itself, not
\* a deepcopy, so the document's earlier trackers show its current state
EndNoteAliased ==
    /\ pc = "ops"
    /\ opIdx = Len(properties)
    /\ LET tr == [tracker EXCEPT !.new_frontmatter = metadata[CurNote]]
           live == [i \in DOMAIN all_changes |->
                       IF all_changes[i].filename = CurNote
                       THEN [all_changes[i] EXCEPT
                                !.new_frontmatter = metadata[CurNote]]
                       ELSE all_changes[i]]
       IN  /\ tracker' = tr
           /\ all_changes' = Append(live, tr)
    /\ noteIdx' = noteIdx + 1
    /\ pc' = IF noteIdx + 1 < Len(notes) THEN "note_loop" ELSE "tag_loop"
    /\ UNCHANGED <<file, yaml, tagIdx, tag, properties, notes, opIdx,
                   metadata, content, stored, rendered, diags, backup,
                   yielded, ruleLog,
                   events, initial>>

\* run, end of the loop body: new snapshot, tracker appended to the session
EndNote ==
    /\ pc = "ops"
    /\ opIdx = Len(properties)
    /\ LET tr == [tracker EXCEPT !.new_frontmatter = metadata[CurNote]]
       IN  /\ tracker' = tr
           /\ all_changes' = Append(all_changes, tr)
    /\ noteIdx' = noteIdx + 1
    /\ pc' = IF noteIdx + 1 < Len(notes) THEN "note_loop" ELSE "tag_loop"
    /\ UNCHANGED <<file, yaml, tagIdx, tag, properties, notes, opIdx,
                   metadata, content, stored, rendered, diags, backup,
                   yielded, ruleLog,
                   events, initial>>

\* _finish: show_summary of the next tracker of the session
ShowSummary ==
    /\ pc = "summary"
    /\ Len(rendered) < Len(all_changes)
    /\ rendered' = Append(rendered, all_changes[Len(rendered) + 1])
    /\ UNCHANGED <<file, yaml, pc, tagIdx, tag, properties, notes, noteIdx,
                   opIdx, metadata, content, stored, tracker, all_changes,
                   diags, backup, yielded, ruleLog,
                   events, initial>>

\* _finish: input("Press Enter to continue...") starts to wait
Prompt ==
    /\ pc = "summary"
    /\ Len(rendered) = Len(all_changes)
    /\ pc' = "confirm"
    /\ UNCHANGED <<file, yaml, tagIdx, tag, properties, notes, noteIdx, opIdx,
                   metadata, content, stored, tracker, all_changes, rendered,
                   diags, backup, yielded, ruleLog,
                   events, initial>>

\* faulty variant of Confirm: the call of _backup_vault is missing
ConfirmNoBackup ==
    /\ pc = "confirm"
    /\ pc' = "update_content"
    /\ events' = Append(events, "confirm")
    /\ UNCHANGED <<file, yaml, tagIdx, tag, properties, notes, noteIdx, opIdx,
                   metadata, content, stored, tracker, all_changes, rendered,
                   diags, backup, yielded, ruleLog, initial>>

\* _finish: the operator presses Enter
Confirm ==
    /\ pc = "confirm"
    /\ pc' = "backup"
    /\ events' = Append(events, "confirm")
    /\ UNCHANGED <<file, yaml, tagIdx, tag, properties, notes, noteIdx, opIdx,
                   metadata, content, stored, tracker, all_changes, rendered,
                   diags, backup, yielded, ruleLog,
                   initial>>

\* faulty variant of Cancel: the return after the KeyboardInterrupt is missing
CancelFallsThrough ==
    /\ pc = "confirm"
    /\ pc' = "backup"
    /\ events' = Append(events, "cancel")
    /\ UNCHANGED <<file, yaml, tagIdx, tag, properties, notes, noteIdx, opIdx,
                   metadata, content, stored, tracker, all_changes, rendered,
                   diags, backup, yielded, ruleLog, initial>>

\* _finish: KeyboardInterrupt at the prompt, return
Cancel ==
    /\ pc = "confirm"
    /\ pc' = "aborted"
    /\ events' = Append(events, "cancel")
    /\ UNCHANGED <<file, yaml, tagIdx, tag, properties, notes, noteIdx, opIdx,
                   metadata, content, stored, tracker, all_changes, rendered,
                   diags, backup, yielded, ruleLog,
                   initial>>

\* _backup_vault: shutil.make_archive of the vault as it is on disk
BackupOk ==
    /\ pc = "backup"
    /\ backup' = [exists |-> TRUE, snapshot |-> stored]
    /\ pc' = "update_content"
    /\ events' = Append(events, "backup")
    /\ UNCHANGED <<file, yaml, tagIdx, tag, properties, notes, noteIdx, opIdx,
                   metadata, content, stored, tracker, all_changes, rendered,
                   diags, yielded, ruleLog,
                   initial>>

\* faulty variant of BackupFail: the error is printed and the exit is missing
BackupFailContinues ==
    /\ pc = "backup"
    /\ pc' = "update_content"
    /\ events' = Append(events, "backup_failed")
    /\ UNCHANGED <<file, yaml, tagIdx, tag, properties, notes, noteIdx, opIdx,
                   metadata, content, stored, tracker, all_changes, rendered,
                   diags, backup, yielded, ruleLog, initial>>

\* _backup_vault: make_archive raises, exit(-1)
BackupFail ==
    /\ pc = "backup"
    /\ pc' = "fatal"
    /\ events' = Append(events, "backup_failed")
    /\ UNCHANGED <<file, yaml, tagIdx, tag, properties, notes, noteIdx, opIdx,
                   metadata, content, stored, tracker, all_changes, rendered,
                   diags, backup, yielded, ruleLog,
                   initial>>

\* the documents the collection holds
Held(ns) == {ns[i] : i \in DOMAIN ns}

\* Notes.update_content: every held note's content is rebuilt from its metadata
UpdateContent ==
    /\ pc = "update_content"
    /\ content' = [d \in Docs |-> IF d \in Held(notes) THEN metadata[d]
                                  ELSE content[d]]
    /\ pc' = "write"
    /\ events' = Append(events, "update_content")
    /\ UNCHANGED <<file, yaml, tagIdx, tag, properties, notes, noteIdx, opIdx,
                   metadata, stored, tracker, all_changes, rendered, diags,
                   backup, yielded, ruleLog,
                   initial>>

\* Notes.write: every held note's content is written to its file
Write ==
    /\ pc = "write"
    /\ stored' = [d \in Docs |-> IF d \in Held(notes) THEN content[d]
                                 ELSE stored[d]]
    /\ pc' = "done"
    /\ events' = Append(events, "write")
    /\ UNCHANGED <<file, yaml, tagIdx, tag, properties, notes, noteIdx, opIdx,
                   metadata, content, tracker, all_changes, rendered, diags,
                   backup, yielded, ruleLog,
                   initial>>

Next ==
    \/ LoadOk \/ LoadFail
    \/ NoTagsFound \/ TagLoopNull \/ TagLoopEnd \/ InvalidTag
    \/ SkipRule \/ SelectNotes
    \/ BeginNote \/ ApplyOp \/ EndNote
    \/ ShowSummary \/ Prompt \/ Confirm \/ Cancel
    \/ BackupOk \/ BackupFail \/ UpdateContent \/ Write

Spec == Init /\ [][Next]_vars

\* the program is sequential and never waits except at the prompt, where the
\* operator eventually presses Enter or interrupts
FairSpec == Spec /\ WF_vars(Next)

(* ------------------------------ claims --------------------------------- *)
Occurred(e) == \E i \in DOMAIN events : events[i] = e

Persisting(e) == e \in {"update_content", "write"}

\* C1: every update_content / write comes after the operator's confirmation
\* and after a successful backup, in that order, and whenever the in-memory
\* content or the disk differs from the original vault a completed backup of
\* the original vault exists.
BackupBeforePersist ==
    /\ \A i \in DOMAIN events :
          Persisting(events[i]) =>
              \E j, k \in 1..(i - 1) :
                  j < k /\ events[j] = "confirm" /\ events[k] = "backup"
    /\ (stored # initial \/ content # initial) =>
          (backup.exists /\ backup.snapshot = initial)

PersistedAfterBackup ==
    /\ pc = "done"
    /\ stored # initial
    /\ backup.exists
    /\ events = <<"confirm", "backup", "update_content", "write">>

\* C2: once backup creation has failed the run is in the fatal error state,
\* update_content and write are never called, and every document on disk has
\* its content from before the run.
BackupFailureIsFatal ==
    Occurred("backup_failed") =>
        /\ pc = "fatal"
        /\ ~Occurred("update_content") /\ ~Occurred("write")
        /\ stored = initial

BackupFailedAfterEdits ==
    /\ pc = "fatal"
    /\ Occurred("confirm") /\ Occurred("backup_failed")
    /\ metadata # initial
    /\ stored = initial

\* C3: once the operator has cancelled at the prompt the run is Aborted, no
\* backup archive exists, nothing was persisted and every document on disk
\* has its content from before the run, whatever was changed in memory.
CancelLeavesStorage ==
    Occurred("cancel") =>
        /\ pc = "aborted"
        /\ ~backup.exists
        /\ ~Occurred("update_content") /\ ~Occurred("write")
        /\ stored = initial

CancelledAfterEdits ==
    /\ pc = "aborted"
    /\ Occurred("cancel")
    /\ all_changes # <<>>
    /\ metadata # initial
    /\ stored = initial

\* C4: the documents a rule's operations are applied to are exactly the
\* documents of the whole vault whose tag field contains the rule's tag,
\* whatever rules were processed before it.
RuleSelectsAllMatching ==
    \A i \in DOMAIN ruleLog :
        Held(ruleLog[i].selected) = ruleLog[i].matching

\* the trackers of the session that belong to document d, in session order
TrackersOf(d) == SelectSeq(all_changes, LAMBDA t : t.filename = d)

\* C5: when the run is Done, the front-matter on disk of every document with
\* a tracker is the new_frontmatter of its last tracker, and every document
\* without a tracker has its original content on disk.
DonePersistsEveryTracker ==
    pc = "done" =>
        \A d \in Docs :
            LET ts == TrackersOf(d)
            IN  IF ts # <<>>
                THEN stored[d] = ts[Len(ts)].new_frontmatter
                ELSE stored[d] = initial[d]

\* the documents of a set in the collection's order
InOrder(S) == SelectSeq(AllNotes, LAMBDA d : d \in S)

RECURSIVE ExpectedSession(_)
\* (rule, matching document) pairs by rule order, then by document order
ExpectedSession(log) ==
    IF log = <<>> THEN <<>>
    ELSE InOrder(Head(log).matching) \o ExpectedSession(Tail(log))

\* C6: at the confirmation prompt every tag entry has been consumed, the
\* session holds one tracker per (non-skipped rule, matching document) pair,
\* by rule order and then by document order, and the summaries were rendered
\* in exactly the session's order.
SessionOnePerMatch ==
    pc = "confirm" =>
        /\ tagIdx = Len(yaml.tags.items)
        /\ [i \in DOMAIN all_changes |-> all_changes[i].filename]
               = ExpectedSession(ruleLog)
        /\ rendered = all_changes

\* the next operation of the validated list is about to be applied
OpPending == pc = "ops" /\ opIdx < Len(properties)

CurOp == properties[opIdx + 1]

CurFm == metadata[CurNote]

ChangeRecord(action, old_property, new_property, old_value, new_value) ==
    [action |-> action, old_property |-> old_property,
     new_property |-> new_property, old_value |-> old_value,
     new_value |-> new_value]

\* add(P, v) applied to a document lacking P
AddOnAbsentStep ==
    (OpPending /\ CurOp.action = "add" /\ CurFm.props[CurOp.new] = Absent) =>
        /\ metadata' = [metadata EXCEPT ![CurNote].props[CurOp.new] =
                                            CurOp.default]
        /\ tracker'.changes =
               Append(tracker.changes,
                      ChangeRecord("add", PyNone, CurOp.new, PyNone,
                                   CurOp.default))
        /\ tracker'.logs = tracker.logs

\* add(P, v) applied right after the same add(P, v)
AddAgainStep ==
    (OpPending /\ CurOp.action = "add" /\ opIdx >= 1
        /\ properties[opIdx] = CurOp) =>
        /\ metadata' = metadata
        /\ tracker'.changes = tracker.changes
        /\ Len(tracker'.logs) = Len(tracker.logs) + 1

\* C7: add(P, v) on a document lacking P sets P to v, leaves every other
\* property and document alone, appends exactly the ChangeRecord
\* {add, new_property = P, new_value = v} and no log; the same add applied
\* again changes no metadata, appends no ChangeRecord and exactly one log.
AddThenIdempotent == [][AddOnAbsentStep /\ AddAgainStep]_vars

AddedTwice ==
    /\ pc = "ops"
    /\ opIdx = 2
    /\ properties[1].action = "add"
    /\ properties[2] = properties[1]
    /\ tracker.old_frontmatter.props[properties[1].new] = Absent
    /\ Len(tracker.changes) = 1
    /\ Len(tracker.logs) = 1
    /\ CurFm.props[properties[1].new] = properties[1].default

\* C8: an add whose configuration entry has no default, applied to a document
\* lacking new_property, sets the property to the empty string and records
\* the empty string as new_value.
AddWithoutDefaultIsEmpty ==
    [][(OpPending /\ CurOp.action = "add" /\ CurOp.default = PyNone
            /\ CurFm.props[CurOp.new] = Absent) =>
          /\ metadata'[CurNote].props[CurOp.new] = ""
          /\ tracker'.changes # <<>>
          /\ tracker'.changes[Len(tracker'.changes)].new_value = ""]_vars

\* rename(old, new) applied to a document in which old is present
RenameOnPresentStep ==
    (OpPending /\ CurOp.action = "rename" /\ CurFm.props[CurOp.old] # Absent) =>
        LET v == CurFm.props[CurOp.old]
        IN  /\ metadata' = [metadata EXCEPT
                               ![CurNote].props =
                                   [k \in PropNames |->
                                       IF k = CurOp.new THEN v
                                       ELSE IF k = CurOp.old THEN Absent
                                       ELSE CurFm.props[k]]]
            /\ tracker'.changes =
                   Append(tracker.changes,
                          ChangeRecord("rename", CurOp.old, CurOp.new, v, v))
            /\ tracker'.logs = tracker.logs

\* a finished tracker whose only ChangeRecord is a rename onto an absent key
RenameOnlySnapshots ==
    \A i \in DOMAIN all_changes :
        LET t == all_changes[i]
        IN  (/\ Len(t.changes) = 1
             /\ t.changes[1].action = "rename"
             /\ t.old_frontmatter.props[t.changes[1].new_property] = Absent) =>
                /\ t.new_frontmatter.tags = t.old_frontmatter.tags
                /\ \A k \in PropNames :
                      t.new_frontmatter.props[k] =
                          IF k = t.changes[1].new_property
                          THEN t.old_frontmatter.props[t.changes[1].old_property]
                          ELSE IF k = t.changes[1].old_property THEN Absent
                          ELSE t.old_frontmatter.props[k]

\* C9: rename(old, new) on a document having old with value v leaves new = v,
\* old absent and everything else unchanged, appends exactly one ChangeRecord
\* with old_value = new_value = v and no log, whether or not new existed; and
\* when new was absent the tracker's snapshots differ in the renamed key only.
RenameMovesValue == [][RenameOnPresentStep]_vars /\ []RenameOnlySnapshots

RenameOverwrote ==
    \E i \in DOMAIN all_changes :
        LET t == all_changes[i]
        IN  /\ t.changes = <<ChangeRecord("rename", "p", "q", "x", "x")>>
            /\ t.logs = <<>>
            /\ t.old_frontmatter.props = [p |-> "x", q |-> "y"]
            /\ t.new_frontmatter.props = [p |-> Absent, q |-> "x"]

\* the operation meets a document it cannot act on
SkipCase(fm, op) ==
    \/ op.action \in {"rename", "remove"} /\ fm.props[op.old] = Absent
    \/ op.action = "add" /\ fm.props[op.new] # Absent

\* a rename whose old and new property are the same
SameRename(op) == op.action = "rename" /\ Truthy(op.old) /\ op.old = op.new

\* an entry with an action and its required names whose old equals new
SameNames(op) ==
    /\ Truthy(op.action)
    /\ op.action \in {"rename", "remove"} => Truthy(op.old)
    /\ op.action \in {"rename", "add"} => Truthy(op.new)
    /\ op.old = op.new

\* the raw property entries of the tag entry being processed
RawProps == yaml.tags.items[tagIdx].properties.items

RECURSIVE SkipCases(_, _, _)
\* the OperationSkip cases met when the raw entries are applied in order to a
\* document with front-matter fm; a rename with old = new counts when same
SkipCases(fm, ops, same) ==
    IF ops = <<>> THEN 0
    ELSE LET op == Head(ops)
             valid == ValidateProperty(op) = ""
             next == IF valid
                     THEN ProcessProperty([fm |-> fm, tr |-> tracker], op).fm
                     ELSE fm
         IN  (IF (same /\ SameRename(op)) \/ (valid /\ SkipCase(fm, op))
              THEN 1 ELSE 0)
                 + SkipCases(next, Tail(ops), same)

\* C10 as stated: when a document's operations are finished, its tracker has
\* one log entry per OperationSkip case, a rename whose old equals new
\* included.
EverySkipIsLogged ==
    (pc = "ops" /\ opIdx = Len(properties)) =>
        Len(tracker.logs) = SkipCases(tracker.old_frontmatter, RawProps, TRUE)

\* one log entry per skip case that reaches the document
ReachedSkipIsLogged ==
    (pc = "ops" /\ opIdx = Len(properties)) =>
        Len(tracker.logs) = SkipCases(tracker.old_frontmatter, RawProps, FALSE)

\* a missing old property (rename, remove) or a present new property (add)
SkipStep ==
    (OpPending /\ SkipCase(CurFm, CurOp)) =>
        /\ metadata' = metadata
        /\ tracker'.changes = tracker.changes
        /\ Len(tracker'.logs) = Len(tracker.logs) + 1
        /\ pc' = "ops" /\ opIdx' = opIdx + 1

Warnings(ds) ==
    Len(SelectSeq(ds, LAMBDA d :
            d = PrintWarning("Old and new properties are the same.")))

\* a yielded rule: its renames with old = new were dropped with one warning
\* each, and no document or tracker was touched
SameRenameDropped ==
    yielded' # yielded =>
        LET raw == yaml.tags.items[tagIdx'].properties.items
        IN  (~yielded'[Len(yielded')].none) =>
                /\ \A i \in DOMAIN properties' : ~SameRename(properties'[i])
                /\ Warnings(diags') - Warnings(diags) =
                       Len(SelectSeq(raw, SameNames))
                /\ metadata' = metadata
                /\ tracker' = tracker
                /\ all_changes' = all_changes

\* C10 amended: a rename or remove whose old property is missing and an add
\* whose new property is present leave the metadata unchanged, append no
\* ChangeRecord and exactly one log entry, and the run goes on with the next
\* operation; a rename whose old equals new is dropped by validation with a
\* console warning, never reaches a document and leaves no log entry.
SkipLogsOrIsDropped ==
    [][SkipStep /\ SameRenameDropped]_vars /\ []ReachedSkipIsLogged

SkippedAndDropped ==
    /\ pc = "ops"
    /\ opIdx = Len(properties)
    /\ Len(RawProps) = 2
    /\ SameRename(RawProps[1])
    /\ properties = <<RawProps[2]>>
    /\ properties[1].action = "remove"
    /\ tracker.changes = <<>>
    /\ tracker.logs = <<LogNotFound(properties[1].old)>>
    /\ Warnings(diags) = 1

\* a tag entry with a tag name and a list of mapping-typed properties
ValidEntry(e) ==
    /\ Truthy(e.tag)
    /\ e.properties.islist
    /\ \A i \in DOMAIN e.properties.items : e.properties.items[i].isdict

\* a property entry that meets every validation rule
Keep(op) ==
    /\ Truthy(op.action)
    /\ op.action \in {"rename", "remove"} => Truthy(op.old)
    /\ op.action \in {"rename", "add"} => Truthy(op.new)
    /\ op.old # op.new

\* the generator is about to consume a raw tag entry
EntryPending == AtTagLoop /\ tagIdx < Len(yaml.tags.items)

NextEntry == yaml.tags.items[tagIdx + 1]

\* C11: for a valid tag entry the generator yields the pair of its tag and
\* the subsequence, in original order, of its properties that have an action,
\* old for rename and remove, new for rename and add, and old # new; every
\* other property is dropped with exactly one diagnostic; the pair is yielded
\* whatever survives, the empty list included.
YieldsValidSubsequence ==
    [][(EntryPending /\ ValidEntry(NextEntry)) =>
          /\ yielded' = Append(yielded,
                 [tag |-> NextEntry.tag, none |-> FALSE,
                  properties |-> SelectSeq(NextEntry.properties.items, Keep)])
          /\ Len(diags') - Len(diags) =
                 Len(NextEntry.properties.items)
                     - Len(SelectSeq(NextEntry.properties.items, Keep))]_vars

FirstDroppedSecondKept ==
    /\ yielded # <<>>
    /\ tagIdx = 1
    /\ Len(yaml.tags.items[1].properties.items) = 2
    /\ SameRename(yaml.tags.items[1].properties.items[1])
    /\ yielded[1].properties = <<yaml.tags.items[1].properties.items[2]>>
    /\ Len(diags) = 1

\* the tags of the pairs yielded from tag entries, in order
YieldedTags ==
    LET ys == SelectSeq(yielded, LAMBDA y : ~y.none)
    IN  [i \in DOMAIN ys |-> ys[i].tag]

\* the tags of the valid entries among the first n, in order
ValidTags(n) ==
    LET es == SelectSeq(SubSeq(yaml.tags.items, 1, n), ValidEntry)
    IN  [i \in DOMAIN es |-> es[i].tag]

\* an invalid entry is consumed with one diagnostic and the generator goes on
InvalidEntryStep ==
    (EntryPending /\ ~ValidEntry(NextEntry)) =>
        /\ yielded' = yielded
        /\ Len(diags') = Len(diags) + 1
        /\ tagIdx' = tagIdx + 1
        /\ pc' = "tag_loop"

\* C12: a tag entry without a tag name, or whose properties are not a list of
\* mappings, is not yielded and costs exactly one diagnostic; every other
\* entry is yielded, in the configuration's order; and _finish is reached
\* only when every entry, also those after an invalid one, was consumed.
InvalidEntriesOmitted ==
    /\ [][InvalidEntryStep]_vars
    /\ [](YieldedTags = ValidTags(tagIdx))
    /\ [](pc \in {"summary", "confirm"} => tagIdx = Len(yaml.tags.items))

InvalidThenValidYielded ==
    /\ pc = "summary"
    /\ Len(yaml.tags.items) = 2
    /\ ~ValidEntry(yaml.tags.items[1])
    /\ ValidEntry(yaml.tags.items[2])
    /\ YieldedTags = <<yaml.tags.items[2].tag>>
    /\ Len(diags) = 1

\* C13: no yielded pair has an empty or None tag, and a configuration without
\* tags (key absent or null) yields no pair, prints exactly one diagnostic
\* and the generator ends normally.
NoTagsYieldsNothing ==
    /\ \A i \in DOMAIN yielded : Truthy(yielded[i].tag)
    /\ (yaml.tags.kind # "list" /\ pc \notin {"start", "get_next_tag", "fatal"}) =>
          /\ yielded = <<>>
          /\ Len(diags) = 1
          /\ pc # "crashed"

\* C14: when the configuration cannot be loaded the run is in the fatal error
\* state right after the attempt: no rule was yielded, no document changed,
\* no tracker made, no backup made, nothing persisted.
LoadFailureIsFatal ==
    (file.status # "ok" /\ pc # "start") =>
        /\ pc = "fatal"
        /\ yielded = <<>> /\ ruleLog = <<>> /\ tagIdx = 0
        /\ metadata = initial
        /\ tracker = PropertyChangeTracker(0, EmptyFm, EmptyFm)
        /\ all_changes = <<>>
        /\ ~backup.exists /\ events = <<>>
        /\ content = initial /\ stored = initial

LoadFailed ==
    /\ pc = "fatal"
    /\ file.status = "unparsable"
    /\ Len(diags) = 1

\* the operations [add(X, v), rename(X, Y)] were applied to a document that
\* lacked X
AddRenameApplied ==
    /\ pc = "ops"
    /\ opIdx = 2
    /\ Len(properties) = 2
    /\ properties[1].action = "add"
    /\ properties[2].action = "rename"
    /\ properties[2].old = properties[1].new
    /\ tracker.old_frontmatter.props[properties[1].new] = Absent

\* C15: the operations of a rule act one after another on the same live
\* metadata: after [add(X, v), rename(X, Y)] on a document lacking X, Y has
\* the value v, X is absent, and the tracker has the add and the rename
\* ChangeRecord and no log.
RenameSeesEarlierAdd ==
    AddRenameApplied =>
        LET X == properties[1].new
            Y == properties[2].new
            v == properties[1].default
        IN  /\ CurFm.props[Y] = v
            /\ CurFm.props[X] = Absent
            /\ tracker.changes =
                   <<ChangeRecord("add", PyNone, X, PyNone, v),
                     ChangeRecord("rename", X, Y, v, v)>>
            /\ tracker.logs = <<>>

AddedThenRenamed ==
    /\ AddRenameApplied
    /\ properties[1].default = "x"
    /\ CurFm.props = [p |-> Absent, q |-> "x"]
    /\ Len(tracker.changes) = 2

\* C16: a tracker appended to the session stays as it is: its snapshots, its
\* changes and its logs are the same after every later step of the run.
SessionTrackersFrozen ==
    [][\A i \in DOMAIN all_changes :
          /\ i \in DOMAIN all_changes'
          /\ all_changes'[i] = all_changes[i]]_vars

\* a document processed under two rules, changed again under the second
SameDocChangedTwice ==
    /\ Len(all_changes) >= 2
    /\ all_changes[1].filename = all_changes[Len(all_changes)].filename
    /\ all_changes[1].changes # <<>>
    /\ all_changes[Len(all_changes)].changes # <<>>
    /\ all_changes[1].new_frontmatter
           # all_changes[Len(all_changes)].new_frontmatter
    /\ all_changes[1].new_frontmatter # metadata[all_changes[1].filename]

Terminal == pc \in {"aborted", "done", "fatal"}

\* C17: every run eventually is in one of the terminal states Aborted, Done
\* or fatal error.
EventuallyTerminal == <>Terminal

\* C18: every operation of the validated list applied to a document leaves
\* exactly one entry in the document's tracker, a ChangeRecord or a log, so
\* after i operations the tracker has i entries and a finished tracker has
\* as many entries as the validated list has operations.
EveryOpLeavesEntry ==
    pc = "ops" => Len(tracker.changes) + Len(tracker.logs) = opIdx

RECURSIVE Replay(_, _)
\* the ChangeRecords replayed in order on a front-matter mapping
Replay(fm, cs) ==
    IF cs = <<>> THEN fm
    ELSE LET c == Head(cs)
             next ==
                 IF c.action = "add"
                 THEN [fm EXCEPT !.props[c.new_property] = c.new_value]
                 ELSE IF c.action = "rename"
                 THEN [[fm EXCEPT !.props[c.new_property] = c.new_value]
                           EXCEPT !.props[c.old_property] = Absent]
                 ELSE IF c.action = "remove"
                 THEN [fm EXCEPT !.props[c.old_property] = Absent]
                 ELSE fm
         IN  Replay(next, Tail(cs))

\* C19: for every tracker of the session, replaying its ChangeRecords in
\* order on old_frontmatter gives new_frontmatter; without ChangeRecords the
\* two snapshots are equal.
ReplayGivesNewSnapshot ==
    \A i \in DOMAIN all_changes :
        Replay(all_changes[i].old_frontmatter, all_changes[i].changes)
            = all_changes[i].new_frontmatter

ReplayedTwoChanges ==
    \E i \in DOMAIN all_changes :
        /\ Len(all_changes[i].changes) = 2
        /\ all_changes[i].changes[1].action = "remove"
        /\ all_changes[i].changes[2].action = "add"
        /\ all_changes[i].old_frontmatter # all_changes[i].new_frontmatter

\* C20: the trackers of one document chain: the first starts from the
\* document's front-matter on disk before the run, and each later one starts
\* from the new_frontmatter of the one before it.
TrackersChain ==
    \A d \in Docs :
        LET ts == TrackersOf(d)
        IN  /\ ts # <<>> => ts[1].old_frontmatter = initial[d]
            /\ \A k \in 1..(Len(ts) - 1) :
                  ts[k + 1].old_frontmatter = ts[k].new_frontmatter

TwoChainedTrackers ==
    \E d \in Docs :
        LET ts == TrackersOf(d)
        IN  /\ Len(ts) = 2
            /\ ts[1].old_frontmatter # ts[1].new_frontmatter
            /\ ts[2].old_frontmatter = ts[1].new_frontmatter
            /\ ts[2].old_frontmatter # initial[d]
====
